---- MODULE Spec2Model ----
(***************************************************************************)
(* Storefront widget of socialproofpopup (SocialProofWidget): the popup    *)
(* scheduling loop, the dismissal counter kept in localStorage, the        *)
(* activity cycler and the widget's teardown.                              *)
(*                                                                         *)
(* Time is discrete: one tick is 100 ms.  A setTimeout callback runs when  *)
(* its remaining time reaches 0; time does not advance while a callback    *)
(* is due.  requestAnimationFrame callbacks run within the tick in which   *)
(* they were requested.  User actions (a click on the close button, a      *)
(* page reload, an explicit destroy() call) may happen at any moment.      *)
(***************************************************************************)
EXTENDS Integers, Sequences, FiniteSets, Bags, TLC

(***************************************************************************)
(* Bounds of the model                                                     *)
(***************************************************************************)
\* close clicks are no longer generated once the stored count reaches this
MaxCount == 4
\* page reloads per behaviour
MaxReloads == 2
\* ticks the clock of the timed scenario runs for
MaxClock == 150
\* longest activity feed the cycler is called on
MaxFeed == 3
\* calls of getNextActivity() beyond the length of the feed
MaxExtraCalls == 2
\* calls of getDismissCount() and incrementDismissCount() in a row
MaxCalls == 11
\* times the storage item is cleared from outside the widget
MaxExternal == 1
\* close clicks in a page view whose storage is also cleared from outside
MaxClicks == 3
\* route handlers that can be in flight on the app server
MaxRequests == 2
\* a settings save that merges activities arrives only while the stored
\* list holds fewer than this many
MaxActivities == 2
\* an orders/create webhook arrives only while fewer than this many rows
\* have been created since the behaviour began
MaxNewRows == 3
\* line items of one order
MaxItems == 2

(***************************************************************************)
(* Program constants                                                       *)
(***************************************************************************)
DISMISS_THRESHOLD == 3
\* skip: 100 of the cleanup of the orders/create webhook
KEEP_LIMIT == 100
\* setTimeout(..., 300) of hidePopup, in ticks
ExitDelayTicks == 3
\* settings.popupDelay * 1000 and settings.displayDuration * 1000, in ticks
TicksPerSecond == 10


(***************************************************************************)
(* JavaScript numbers and strings, as far as the dismissal counter uses    *)
(* them.  A number is NaN or an integer; a string is a sequence of         *)
(* one-character strings.                                                  *)
(***************************************************************************)
NaN == [nan |-> TRUE, v |-> 0]
Num(n) == [nan |-> FALSE, v |-> n]

DigitChars == <<"0", "1", "2", "3", "4", "5", "6", "7", "8", "9">>
IsDigit(c) == \E i \in 1..10 : DigitChars[i] = c
DigitVal(c) == (CHOOSE i \in 1..10 : DigitChars[i] = c) - 1

RECURSIVE SkipSpaces(_)
SkipSpaces(s) ==
    IF s # <<>> /\ Head(s) = " " THEN SkipSpaces(Tail(s)) ELSE s

RECURSIVE DigitsPrefixValue(_, _)
DigitsPrefixValue(s, acc) ==
    IF s = <<>> \/ ~IsDigit(Head(s))
    THEN acc
    ELSE DigitsPrefixValue(Tail(s), acc * 10 + DigitVal(Head(s)))

\* parseInt(s, 10): leading white space is skipped, an optional sign is
\* read, then the longest prefix of decimal digits; NaN when there is none.
parseInt(s) ==
    LET t == SkipSpaces(s)
        neg == t # <<>> /\ Head(t) = "-"
        u == IF t # <<>> /\ Head(t) \in {"-", "+"} THEN Tail(t) ELSE t
    IN IF u = <<>> \/ ~IsDigit(Head(u))
       THEN NaN
       ELSE Num((IF neg THEN -1 ELSE 1) * DigitsPrefixValue(u, 0))

RECURSIVE NatToString(_)
NatToString(n) ==
    IF n < 10
    THEN <<DigitChars[n + 1]>>
    ELSE NatToString(n \div 10) \o <<DigitChars[(n % 10) + 1]>>

\* Number.prototype.toString()
toString(x) ==
    IF x.nan THEN <<"N", "a", "N">>
    ELSE IF x.v < 0 THEN <<"-">> \o NatToString(-x.v)
    ELSE NatToString(x.v)

\* x + 1 and x < y on JavaScript numbers
PlusOne(x) == IF x.nan THEN NaN ELSE Num(x.v + 1)
LessThan(x, y) == ~x.nan /\ ~y.nan /\ x.v < y.v

(***************************************************************************)
(* The page and the widget                                                 *)
(***************************************************************************)
\* null / undefined of a field that otherwise holds a record
NULL == [null |-> TRUE]
\* null where an activity is expected
NoActivity == "null"

VARIABLES
    page,             \* the document: config script, container, add-to-cart anchor
    storage,          \* localStorage item 'spp_dismiss_count'
    phase,            \* "constructed" until init() has run, then "initialized"
    config,           \* this.config
    settings,         \* this.settings
    container,        \* this.container: [className, display, present]
    counterElement,   \* this.counterElement and the badge it refers to
    counterObserver,  \* this.counterObserver: "null", "observing", "disconnected"
    activityQueue,    \* this.activityQueue
    currentPopup,     \* this.currentPopup: a popup id, 0 for null
    timeoutId,        \* this.timeoutId: "null", or "set" once a wait timer was set
    activityIndex,    \* this.activityIndex
    elements,         \* the popup elements that exist, mounted or detached
    timers,           \* pending setTimeout callbacks: a bag of [kind, rem, handle]
    frames,           \* pending requestAnimationFrame callbacks of popups
    animation,        \* the count-up animation of the badge
    destroyed,        \* destroy() has been called in this page view
    destroyStreak,    \* destroy() calls since the last other step (at most 2)
    reloads,          \* page reloads so far
    countAtLoad,      \* getDismissCount() when init() ran
    clicks,           \* close clicks so far, over all page loads
    clicksAtLoad,     \* close clicks before this page load
    freshStart,       \* the storage was absent or a plain count at the start
    now,              \* ticks since the page loaded, where the clock is kept
    lastShown,        \* the activity of the popup mounted last in this page view
    stopped,          \* a check has ended a run of the scheduler in this page view
    results,          \* what the calls made so far returned, in call order
    external,         \* writes to the storage item by others so far
    db,               \* the app's database: the RecentOrder table of the shop
    metafield,        \* the shop metafield social_proof.config
    billing,          \* the shop has an active subscription
    requests          \* the route handlers in flight on the app server

engine == <<config, settings, container, counterElement, counterObserver,
            activityQueue, currentPopup, timeoutId, activityIndex>>
browser == <<storage, elements, timers, frames, animation>>
history == <<destroyed, destroyStreak, reloads, countAtLoad, clicks,
             clicksAtLoad, freshStart, now, lastShown, stopped, results,
             external>>
backend == <<db, metafield, billing, requests>>
vars == <<page, phase, engine, browser, history, backend>>

\* The widget and the part of the browser it acts on, as one record: the
\* methods below take it and return it changed.
St ==
    [page |-> page, storage |-> storage, config |-> config,
     settings |-> settings, container |-> container,
     counterElement |-> counterElement, counterObserver |-> counterObserver,
     activityQueue |-> activityQueue, currentPopup |-> currentPopup,
     timeoutId |-> timeoutId, activityIndex |-> activityIndex,
     elements |-> elements, timers |-> timers, frames |-> frames,
     animation |-> animation]

\* constructor()
Constructed(pg, st) ==
    [page |-> pg, storage |-> st, config |-> NULL, settings |-> NULL,
     container |-> NULL, counterElement |-> NULL, counterObserver |-> "null",
     activityQueue |-> <<>>, currentPopup |-> 0, timeoutId |-> "null",
     activityIndex |-> 0, elements |-> {}, timers |-> EmptyBag,
     frames |-> <<>>, animation |-> NULL]

ElementIds(s) == {e.id : e \in s.elements}
Element(s, p) == CHOOSE e \in s.elements : e.id = p
\* the popup elements attached to the container
Mounted(s) == {e.id : e \in {x \in s.elements : x.mounted}}
SmallestFree(used) == CHOOSE n \in 1..(Cardinality(used) + 1) : n \notin used

(***************************************************************************)
(* The app server: database, metafield and the route handlers in flight    *)
(***************************************************************************)
Procs == 1..MaxRequests
Idle == [kind |-> "idle", pc |-> "idle"]
\* the RecentOrder table: rows are [id, orderId, productTitle, createdAt];
\* time is the database clock createdAt defaults to
EmptyDb == [rows |-> {}, nextId |-> 1, time |-> 0]

\* no request is in flight and nothing is stored
Offline ==
    /\ db = EmptyDb
    /\ metafield = NULL
    /\ billing = FALSE
    /\ requests = [p \in Procs |-> Idle]

\* db.recentOrder.create({data}): id is SERIAL, createdAt is now()
recentOrderCreate(d, orderId, productTitle) ==
    [d EXCEPT !.rows = @ \cup {[id |-> d.nextId, orderId |-> orderId,
                                productTitle |-> productTitle,
                                createdAt |-> d.time]},
              !.nextId = @ + 1]

\* db.recentOrder.findFirst({where: {shopId, orderId, productTitle}})
\* found a row
recentOrderExists(d, orderId, productTitle) ==
    \E r \in d.rows : r.orderId = orderId /\ r.productTitle = productTitle

(***************************************************************************)
(* Dismiss tracking                                                        *)
(***************************************************************************)
Absent == [present |-> FALSE, value |-> <<>>]
Stored(str) == [present |-> TRUE, value |-> str]

\* localStorage.getItem('spp_dismiss_count') || '0'
getItemOrZero(s) ==
    IF ~s.storage.present \/ s.storage.value = <<>>
    THEN <<"0">>
    ELSE s.storage.value

getDismissCount(s) == parseInt(getItemOrZero(s))

\* variant: the stored string is not parsed before 1 is added
incrementDismissCountConcat(s) ==
    [s EXCEPT !.storage = Stored(getItemOrZero(s) \o <<"1">>)]

incrementDismissCount(s) ==
    LET count == PlusOne(getDismissCount(s))
    IN [s EXCEPT !.storage = Stored(toString(count))]

\* variant: the threshold itself still allows popups
shouldShowPopupsInclusive(s) ==
    LessThan(getDismissCount(s), Num(DISMISS_THRESHOLD + 1))

shouldShowPopups(s) == LessThan(getDismissCount(s), Num(DISMISS_THRESHOLD))

(***************************************************************************)
(* Configuration and container                                             *)
(***************************************************************************)
UpperChars == <<"A", "B", "D", "E", "F", "G", "H", "I", "L", "M", "O", "P",
                "R", "T">>
LowerChars == <<"a", "b", "d", "e", "f", "g", "h", "i", "l", "m", "o", "p",
                "r", "t">>
LowerChar(c) ==
    IF \E i \in DOMAIN UpperChars : UpperChars[i] = c
    THEN LowerChars[CHOOSE i \in DOMAIN UpperChars : UpperChars[i] = c]
    ELSE c

\* String.prototype.toLowerCase()
toLowerCase(str) == [i \in DOMAIN str |-> LowerChar(str[i])]

\* str.replace('_', '-'): a string pattern replaces the first match only
replaceUnderscore(str) ==
    IF \E i \in DOMAIN str : str[i] = "_"
    THEN LET k == CHOOSE i \in DOMAIN str :
                     str[i] = "_" /\ \A j \in 1..(i - 1) : str[j] # "_"
         IN [i \in DOMAIN str |-> IF i = k THEN "-" ELSE str[i]]
    ELSE str

BOTTOM_LEFT == <<"B", "O", "T", "T", "O", "M", "_", "L", "E", "F", "T">>
BOTTOM_RIGHT == <<"B", "O", "T", "T", "O", "M", "_", "R", "I", "G", "H", "T">>
TOP_LEFT == <<"T", "O", "P", "_", "L", "E", "F", "T">>
TOP_RIGHT == <<"T", "O", "P", "_", "R", "I", "G", "H", "T">>

\* (this.settings.popupPosition || 'BOTTOM_LEFT').toLowerCase().replace('_', '-')
positionClass(s) ==
    LET position == IF s.settings.popupPosition = <<>>
                    THEN BOTTOM_LEFT
                    ELSE s.settings.popupPosition
    IN replaceUnderscore(toLowerCase(position))

readConfig(s) == IF s.page.script = "ok" THEN s.page.config ELSE NULL

setupContainer(s) ==
    [s EXCEPT !.container = [@ EXCEPT !.className = positionClass(s)]]

(***************************************************************************)
(* Timers                                                                  *)
(***************************************************************************)
\* A pending timer is [kind, rem, handle]: the callback it runs, the ticks
\* left, and whether this.timeoutId holds its id (the most recent wait timer).
Timer(kind, ticks, handle) == [kind |-> kind, rem |-> ticks, handle |-> handle]
Pending(s) == BagToSet(s.timers)
TimersOf(s, kind) == {t \in Pending(s) : t.kind = kind}
RECURSIVE CountIn(_, _)
CountIn(b, ts) ==
    IF ts = {} THEN 0
    ELSE LET t == CHOOSE x \in ts : TRUE
         IN b[t] + CountIn(b, ts \ {t})
\* how many timers of a kind are pending
CountOf(s, kind) == CountIn(s.timers, TimersOf(s, kind))

\* setTimeout(callback, ticks)
setTimeout(s, kind, ticks) ==
    [s EXCEPT !.timers = @ (+) SetToBag({Timer(kind, ticks, FALSE)})]

\* the timer has run, or was cleared
removeTimer(s, t) == [s EXCEPT !.timers = @ (-) SetToBag({t})]

\* clearTimeout(this.timeoutId): nothing happens if that timer already ran
clearTimeout(s) ==
    IF \E t \in Pending(s) : t.handle
    THEN removeTimer(s, CHOOSE t \in Pending(s) : t.handle)
    ELSE s

\* this.timeoutId = setTimeout(...): the handle moves to the new timer
takeHandle(s, t) ==
    LET s1 == IF \E x \in Pending(s) : x.handle
              THEN LET old == CHOOSE x \in Pending(s) : x.handle
                   IN [s EXCEPT !.timers =
                         (@ (-) SetToBag({old}))
                            (+) SetToBag({[old EXCEPT !.handle = FALSE]})]
              ELSE s
    IN [s1 EXCEPT !.timers = @ (+) SetToBag({t}), !.timeoutId = "set"]

\* variant: after the first popup the display duration is used as the delay
scheduleNextPopupOtherDelay(s, isInitial) ==
    LET delay == IF isInitial
                 THEN s.settings.popupDelay * TicksPerSecond
                 ELSE s.settings.displayDuration * TicksPerSecond
    IN takeHandle(s, Timer("wait", delay, TRUE))

scheduleNextPopup(s, isInitial) ==
    LET delay == IF isInitial
                 THEN s.settings.popupDelay * TicksPerSecond
                 ELSE s.settings.popupDelay * TicksPerSecond
    IN takeHandle(s, Timer("wait", delay, TRUE))

(***************************************************************************)
(* Activity cycler                                                         *)
(***************************************************************************)
\* the activity getNextActivity() returns, and the state it leaves
NextActivity(s) ==
    IF Len(s.activityQueue) = 0
    THEN NoActivity
    ELSE s.activityQueue[s.activityIndex + 1]

\* variant: the cursor wraps one entry early
getNextActivityEarlyWrap(s) ==
    IF Len(s.activityQueue) = 0
    THEN s
    ELSE [s EXCEPT !.activityIndex =
             IF @ + 1 >= Len(s.activityQueue) - 1 THEN 0 ELSE @ + 1]

getNextActivity(s) ==
    IF Len(s.activityQueue) = 0
    THEN s
    ELSE [s EXCEPT !.activityIndex = (@ + 1) % Len(s.activityQueue)]

(***************************************************************************)
(* Popups                                                                  *)
(***************************************************************************)
\* element.remove()
removeElement(s, p) ==
    [s EXCEPT !.elements =
        {IF e.id = p THEN [e EXCEPT !.mounted = FALSE] ELSE e : e \in @}]

\* classList.add / classList.remove on the state markers of a popup
setClasses(s, p, removed, added) ==
    [s EXCEPT !.elements =
        {IF e.id = p
         THEN [e EXCEPT !.classes = (@ \ removed) \cup added]
         ELSE e : e \in @}]

\* the element createPopupElement(activity) returns; age, hideAge, hideBy
\* and clicks record what happens to it and are not read by the widget
createPopupElement(s, activity) ==
    [id |-> SmallestFree(ElementIds(s)), activity |-> activity,
     position |-> positionClass(s), classes |-> {}, mounted |-> FALSE,
     age |-> 0, hideAge |-> -1, hideBy |-> "none", clicks |-> 0]

\* variant: the popup that is still mounted is left in place
showPopupKeepingOld(s) ==
    IF ~shouldShowPopups(s) THEN s
    ELSE IF NextActivity(s) = NoActivity THEN getNextActivity(s)
    ELSE
      LET s1 == getNextActivity(s)
          popup == createPopupElement(s1, NextActivity(s))
          s3 == [s1 EXCEPT
                   !.elements = @ \cup
                       {[popup EXCEPT !.mounted = TRUE,
                                      !.classes = {"entering"}]},
                   !.currentPopup = popup.id,
                   !.frames = Append(@, [popup |-> popup.id, stage |-> 1])]
      IN setTimeout(s3, "hide", s.settings.displayDuration * TicksPerSecond)

\* variant: the activity is taken from the feed before the dismiss count is
\* looked at
showPopupConsumingFirst(s) ==
    IF ~shouldShowPopups(s) \/ NextActivity(s) = NoActivity
    THEN getNextActivity(s)
    ELSE
      LET s1 == getNextActivity(s)
          s2 == IF s1.currentPopup # 0
                THEN removeElement(s1, s1.currentPopup)
                ELSE s1
          popup == createPopupElement(s2, NextActivity(s))
          s3 == [s2 EXCEPT
                   !.elements = @ \cup
                       {[popup EXCEPT !.mounted = TRUE,
                                      !.classes = {"entering"}]},
                   !.currentPopup = popup.id,
                   !.frames = Append(@, [popup |-> popup.id, stage |-> 1])]
      IN setTimeout(s3, "hide", s.settings.displayDuration * TicksPerSecond)

showPopup(s) ==
    IF ~shouldShowPopups(s) THEN s
    ELSE IF NextActivity(s) = NoActivity THEN getNextActivity(s)
    ELSE
      LET s1 == getNextActivity(s)
          s2 == IF s1.currentPopup # 0
                THEN removeElement(s1, s1.currentPopup)
                ELSE s1
          popup == createPopupElement(s2, NextActivity(s))
          s3 == [s2 EXCEPT
                   !.elements = @ \cup
                       {[popup EXCEPT !.mounted = TRUE,
                                      !.classes = {"entering"}]},
                   !.currentPopup = popup.id,
                   !.frames = Append(@, [popup |-> popup.id, stage |-> 1])]
      IN setTimeout(s3, "hide", s.settings.displayDuration * TicksPerSecond)

\* the requestAnimationFrame callbacks of showPopup
popupFrame(s, f) ==
    IF f.stage = 1
    THEN [s EXCEPT !.frames = Append(@, [popup |-> f.popup, stage |-> 2])]
    ELSE setClasses(s, f.popup, {"entering"}, {"visible"})

\* variant: every hide counts as a dismissal
hidePopupCounting(s) ==
    IF s.currentPopup = 0 THEN s
    ELSE setTimeout(setClasses(incrementDismissCount(s), s.currentPopup,
                               {"visible"}, {"exiting"}),
                    "exit", ExitDelayTicks)

hidePopup(s) ==
    IF s.currentPopup = 0 THEN s
    ELSE setTimeout(setClasses(s, s.currentPopup, {"visible"}, {"exiting"}),
                    "exit", ExitDelayTicks)

\* variant: the exit callback removes the popup and schedules nothing
hidePopupDoneOnce(s) ==
    IF s.currentPopup # 0
    THEN [removeElement(s, s.currentPopup) EXCEPT !.currentPopup = 0]
    ELSE s

\* the setTimeout callback of hidePopup
hidePopupDone(s) ==
    LET s1 == IF s.currentPopup # 0
              THEN [removeElement(s, s.currentPopup) EXCEPT !.currentPopup = 0]
              ELSE s
    IN IF shouldShowPopups(s1) THEN scheduleNextPopup(s1, FALSE) ELSE s1

\* the click handler of the close button
closeClick(s) == hidePopup(incrementDismissCount(s))

(***************************************************************************)
(* Counter badge                                                           *)
(***************************************************************************)
\* animateCounter(element, target, duration = 1500), in ticks
AnimationTicks == 15

\* createCounterElement(count, timeframe): the number starts at 0
createCounterElement(s, count) ==
    [mounted |-> FALSE, visible |-> FALSE, text |-> 0, target |-> count]

\* runs records how many times the count-up was started (1, or 2 for more)
\* and is not read by the widget
animateCounter(s, target) ==
    [s EXCEPT !.animation =
        [elapsed |-> 0, lastValue |-> -1, target |-> target,
         pending |-> TRUE,
         runs |-> IF s.animation = NULL THEN 1 ELSE 2]]

\* Math.floor(eased * target) with eased = 1 - (1 - progress)^3 and
\* progress = min(elapsed / duration, 1)
EasedValue(elapsed, target) ==
    LET e == IF elapsed > AnimationTicks THEN AnimationTicks ELSE elapsed
        d == AnimationTicks
        r == d - e
    IN (target * (d * d * d - r * r * r)) \div (d * d * d)

\* variant: the callback stops rescheduling one frame interval early
animateCounterUpdateEarlyStop(s) ==
    LET a == s.animation
        currentValue == EasedValue(a.elapsed, a.target)
        changed == currentValue # a.lastValue
    IN [s EXCEPT
          !.animation = [@ EXCEPT
              !.lastValue = currentValue,
              !.pending = a.elapsed + 1 < AnimationTicks],
          !.counterElement = IF changed
                             THEN [@ EXCEPT !.text = currentValue]
                             ELSE @]

\* the update callback of animateCounter
animateCounterUpdate(s) ==
    LET a == s.animation
        currentValue == EasedValue(a.elapsed, a.target)
        changed == currentValue # a.lastValue
    IN [s EXCEPT
          !.animation = [@ EXCEPT
              !.lastValue = currentValue,
              !.pending = a.elapsed < AnimationTicks],
          !.counterElement = IF changed
                             THEN [@ EXCEPT !.text = currentValue]
                             ELSE @]

observeCounter(s, count) == [s EXCEPT !.counterObserver = "observing"]

\* variant: the observer keeps observing after the first intersection
counterIntersectObserving(s, isIntersecting) ==
    IF isIntersecting
    THEN animateCounter(
             [s EXCEPT !.counterElement = [@ EXCEPT !.visible = TRUE]],
             s.counterElement.target)
    ELSE s

\* the IntersectionObserver callback
counterIntersect(s, isIntersecting) ==
    IF isIntersecting
    THEN [animateCounter(
              [s EXCEPT !.counterElement = [@ EXCEPT !.visible = TRUE]],
              s.counterElement.target)
          EXCEPT !.counterObserver = "disconnected"]
    ELSE s

\* variant: the badge is created whether or not the anchor was found
showCounterAnywhere(s, demoCount) ==
    IF s.config.pageType # "product" \/ ~s.config.productId THEN s
    ELSE observeCounter(
             [s EXCEPT !.counterElement =
                 [createCounterElement(s, demoCount) EXCEPT !.mounted = TRUE]],
             demoCount)

\* showCounter(), with demoCount the value drawn by Math.random()
showCounter(s, demoCount) ==
    IF s.config.pageType # "product" \/ ~s.config.productId THEN s
    ELSE IF ~s.page.hasAnchor THEN s
    ELSE observeCounter(
             [s EXCEPT !.counterElement =
                 [createCounterElement(s, demoCount) EXCEPT !.mounted = TRUE]],
             demoCount)

(***************************************************************************)
(* init() and destroy()                                                    *)
(***************************************************************************)
\* variant: the scheduler is started without looking at the dismiss count
initUngated(s, demoCount) ==
    LET s1 == [s EXCEPT !.config = readConfig(s)]
    IN IF s1.config = NULL THEN s1
       ELSE
         LET s2 == [s1 EXCEPT !.settings = s1.config.settings]
         IN IF s2.settings = NULL THEN s2
            ELSE IF ~s2.page.hasContainer THEN s2
            ELSE
              LET s3 == [s2 EXCEPT
                           !.container = [className |-> <<>>, display |-> ""],
                           !.activityQueue = s2.config.demoActivities]
                  s4 == setupContainer(s3)
                  s5 == IF s4.settings.popupEnabled
                        THEN scheduleNextPopup(s4, TRUE)
                        ELSE s4
                  s6 == IF /\ s5.settings.counterEnabled
                           /\ s5.config.pageType = "product"
                           /\ s5.config.productId
                        THEN showCounter(s5, demoCount)
                        ELSE s5
              IN [s6 EXCEPT !.container = [@ EXCEPT !.display = "block"]]

\* variant: the container is not looked for
initAnyContainer(s, demoCount) ==
    LET s1 == [s EXCEPT !.config = readConfig(s)]
    IN IF s1.config = NULL THEN s1
       ELSE
         LET s2 == [s1 EXCEPT !.settings = s1.config.settings]
         IN IF s2.settings = NULL THEN s2
            ELSE
              LET s3 == [s2 EXCEPT
                           !.container = [className |-> <<>>, display |-> ""],
                           !.activityQueue = s2.config.demoActivities]
                  s4 == setupContainer(s3)
                  s5 == IF s4.settings.popupEnabled /\ shouldShowPopups(s4)
                        THEN scheduleNextPopup(s4, TRUE)
                        ELSE s4
                  s6 == IF /\ s5.settings.counterEnabled
                           /\ s5.config.pageType = "product"
                           /\ s5.config.productId
                        THEN showCounter(s5, demoCount)
                        ELSE s5
              IN [s6 EXCEPT !.container = [@ EXCEPT !.display = "block"]]

init(s, demoCount) ==
    LET s1 == [s EXCEPT !.config = readConfig(s)]
    IN IF s1.config = NULL THEN s1
       ELSE
         LET s2 == [s1 EXCEPT !.settings = s1.config.settings]
         IN IF s2.settings = NULL THEN s2
            ELSE IF ~s2.page.hasContainer THEN s2
            ELSE
              LET s3 == [s2 EXCEPT
                           !.container = [className |-> <<>>, display |-> ""],
                           !.activityQueue = s2.config.demoActivities]
                  s4 == setupContainer(s3)
                  s5 == IF s4.settings.popupEnabled /\ shouldShowPopups(s4)
                        THEN scheduleNextPopup(s4, TRUE)
                        ELSE s4
                  s6 == IF /\ s5.settings.counterEnabled
                           /\ s5.config.pageType = "product"
                           /\ s5.config.productId
                        THEN showCounter(s5, demoCount)
                        ELSE s5
              IN [s6 EXCEPT !.container = [@ EXCEPT !.display = "block"]]

destroy(s) ==
    LET s1 == IF s.timeoutId # "null" THEN clearTimeout(s) ELSE s
        s2 == IF s1.currentPopup # 0
              THEN removeElement(s1, s1.currentPopup)
              ELSE s1
        s3 == IF s2.container # NULL
              THEN [s2 EXCEPT
                      !.elements = {[e EXCEPT !.mounted = FALSE] : e \in @},
                      !.container = [@ EXCEPT !.display = "none"]]
              ELSE s2
        s4 == IF s3.counterObserver # "null"
              THEN [s3 EXCEPT !.counterObserver = "disconnected"]
              ELSE s3
    IN IF s4.counterElement # NULL
       THEN [s4 EXCEPT !.counterElement = [@ EXCEPT !.mounted = FALSE]]
       ELSE s4

(***************************************************************************)
(* Pages and stored values the behaviours start from                       *)
(***************************************************************************)
BaseSettings ==
    [popupEnabled |-> TRUE, counterEnabled |-> FALSE,
     popupPosition |-> BOTTOM_LEFT, popupDelay |-> 1, displayDuration |-> 1]

BasePage ==
    [script |-> "ok",
     config |-> [settings |-> BaseSettings, demoActivities |-> <<"A", "B">>,
                 pageType |-> "home", productId |-> FALSE],
     hasContainer |-> TRUE, hasAnchor |-> FALSE]

PopupsOffPage ==
    [BasePage EXCEPT !.config.settings.popupEnabled = FALSE]
EmptyFeedPage ==
    [BasePage EXCEPT !.config.demoActivities = <<>>]
ProductPage ==
    [BasePage EXCEPT !.config.settings.popupEnabled = FALSE,
                     !.config.settings.counterEnabled = TRUE,
                     !.config.pageType = "product",
                     !.config.productId = TRUE,
                     !.hasAnchor = TRUE]

\* values of Math.floor(Math.random() * 46) + 5
DemoCounts == {5, 50}

\* what the storage item may hold when the first page loads
StoredValues ==
    {Absent, Stored(<<>>), Stored(<<"0">>), Stored(<<"2">>), Stored(<<"3">>),
     Stored(<<"7">>), Stored(<<"a", "b", "c">>), Stored(<<"2", "a">>)}

\* absent, or the decimal form of a count as the widget writes it
IsPlainCount(st) ==
    \/ ~st.present
    \/ LET n == parseInt(st.value)
       IN ~n.nan /\ n.v >= 0 /\ toString(n) = st.value

(***************************************************************************)
(* The state machine                                                       *)
(***************************************************************************)
\* elements nothing refers to any more are dropped
Collect(s) ==
    [s EXCEPT !.elements =
        {e \in @ : \/ e.mounted
                   \/ e.id = s.currentPopup
                   \/ \E i \in DOMAIN s.frames : s.frames[i].popup = e.id}]

Set(s0) ==
    LET s == Collect(s0)
    IN /\ page' = s.page
       /\ storage' = s.storage
       /\ config' = s.config
       /\ settings' = s.settings
       /\ container' = s.container
       /\ counterElement' = s.counterElement
       /\ counterObserver' = s.counterObserver
       /\ activityQueue' = s.activityQueue
       /\ currentPopup' = s.currentPopup
       /\ timeoutId' = s.timeoutId
       /\ activityIndex' = s.activityIndex
       /\ elements' = s.elements
       /\ timers' = s.timers
       /\ frames' = s.frames
       /\ animation' = s.animation

\* the first hide of the popup that was current in s0 is recorded on it:
\* who began it (on a popup destroy() had detached: "detached") and when
MarkHide(s0, s1, by) ==
    LET p == s0.currentPopup
    IN IF p # 0 /\ Element(s0, p).hideBy = "none"
       THEN [s1 EXCEPT !.elements =
               {IF e.id = p
                THEN [e EXCEPT !.hideBy = IF e.mounted THEN by ELSE "detached",
                               !.hideAge = e.age]
                ELSE e : e \in @}]
       ELSE s1

MarkClick(s, p) ==
    [s EXCEPT !.elements =
        {IF e.id = p THEN [e EXCEPT !.clicks = @ + 1] ELSE e : e \in @}]

Other == /\ destroyStreak' = 0
         /\ UNCHANGED <<destroyed, reloads, countAtLoad, clicks,
                        clicksAtLoad, freshStart, results, external, backend>>

\* the step is not one of the scheduler's checks and mounts nothing
NoShow == UNCHANGED <<lastShown, stopped>>

Init ==
    /\ \/ page = BasePage /\ storage \in StoredValues
       \/ /\ page \in {PopupsOffPage, EmptyFeedPage, ProductPage}
          /\ storage \in {Absent, Stored(<<"3">>), Stored(<<"-", "1">>)}
    /\ phase = "constructed"
    /\ config = NULL /\ settings = NULL /\ container = NULL
    /\ counterElement = NULL /\ counterObserver = "null"
    /\ activityQueue = <<>> /\ currentPopup = 0 /\ timeoutId = "null"
    /\ activityIndex = 0
    /\ elements = {} /\ timers = EmptyBag /\ frames = <<>> /\ animation = NULL
    /\ destroyed = FALSE /\ destroyStreak = 0 /\ reloads = 0
    /\ countAtLoad = NaN /\ clicks = 0 /\ clicksAtLoad = 0
    /\ freshStart = IsPlainCount(storage)
    /\ now = 0 /\ lastShown = NoActivity /\ stopped = FALSE
    /\ results = <<>> /\ external = 0
    /\ Offline

\* initWidget(): the widget is created and init() runs
InitWidget ==
    /\ phase = "constructed"
    /\ phase' = "initialized"
    /\ \E demoCount \in DemoCounts : Set(init(St, demoCount))
    /\ countAtLoad' = getDismissCount(St)
    /\ destroyStreak' = 0
    /\ UNCHANGED <<destroyed, reloads, clicks, clicksAtLoad, freshStart,
                   now, results, external, backend>>
    /\ NoShow

\* 100 ms pass: no callback is due
Elapse ==
    /\ frames = <<>>
    /\ \A t \in BagToSet(timers) : t.rem > 0
    /\ \/ timers # EmptyBag
       \/ animation # NULL /\ animation.elapsed < AnimationTicks
    /\ timers' = [t \in {[x EXCEPT !.rem = @ - 1] : x \in BagToSet(timers)}
                    |-> timers[[t EXCEPT !.rem = @ + 1]]]
    /\ elements' = {IF e.hideBy = "none"
                    THEN [e EXCEPT !.age = @ + 1]
                    ELSE e : e \in elements}
    /\ animation' = IF animation # NULL /\ animation.elapsed < AnimationTicks
                    THEN [animation EXCEPT !.elapsed = @ + 1]
                    ELSE animation
    /\ UNCHANGED <<page, phase, engine, storage, frames>>
    /\ Other
    /\ NoShow

Tick == Elapse /\ UNCHANGED now

\* a timer of the kind is due; timers of one kind run in the order they
\* were set, so the one this.timeoutId refers to runs last
Due(t, kind) ==
    /\ t \in BagToSet(timers)
    /\ t.kind = kind
    /\ t.rem = 0
    /\ t.handle => timers[t] = 1 /\ [t EXCEPT !.handle = FALSE] \notin BagToSet(timers)

\* showPopup() returns at one of its two checks
ShowStops(s) == ~shouldShowPopups(s) \/ NextActivity(s) = NoActivity

\* the wait timer of scheduleNextPopup fires
WaitTimer ==
    /\ \E t \in BagToSet(timers) :
          /\ Due(t, "wait")
          /\ Set(showPopup(removeTimer(St, t)))
    /\ stopped' = (stopped \/ ShowStops(St))
    /\ lastShown' = IF ShowStops(St)
                    THEN lastShown
                    ELSE (CHOOSE e \in elements' : e.id = currentPopup').activity
    /\ UNCHANGED <<phase, now>>
    /\ Other

\* the auto-hide timer of showPopup fires
AutoHideTimer ==
    /\ \E t \in BagToSet(timers) :
          /\ Due(t, "hide")
          /\ Set(MarkHide(St, hidePopup(removeTimer(St, t)), "auto"))
    /\ UNCHANGED <<phase, now>>
    /\ Other
    /\ NoShow

\* the exit timer of hidePopup fires
ExitTimer ==
    /\ \E t \in BagToSet(timers) :
          /\ Due(t, "exit")
          /\ Set(hidePopupDone(removeTimer(St, t)))
    /\ stopped' = (stopped \/ ~shouldShowPopups(St))
    /\ UNCHANGED <<phase, now, lastShown>>
    /\ Other

\* the next paint frame runs the oldest pending callback of a popup
PopupFrame ==
    /\ frames # <<>>
    /\ Set(popupFrame([St EXCEPT !.frames = Tail(@)], Head(frames)))
    /\ UNCHANGED <<phase, now>>
    /\ Other
    /\ NoShow

\* the user clicks the close button of a popup on the page
CloseClick ==
    /\ container # NULL /\ container.display = "block"
    /\ LET c == getDismissCount(St) IN c.nan \/ c.v < MaxCount
    /\ \E p \in Mounted(St) :
          Set(MarkClick(MarkHide(St, closeClick(St), "close"), p))
    /\ clicks' = clicks + 1
    /\ destroyStreak' = 0
    /\ UNCHANGED <<phase, destroyed, reloads, countAtLoad, clicksAtLoad,
                   freshStart, now, results, external, backend>>
    /\ NoShow

\* the observer reports the badge
CounterIntersect ==
    /\ counterObserver = "observing"
    /\ \E isIntersecting \in BOOLEAN :
          Set(counterIntersect(St, isIntersecting))
    /\ UNCHANGED <<phase, now>>
    /\ Other
    /\ NoShow

\* a paint frame runs the update callback of the count-up
AnimationFrame ==
    /\ animation # NULL /\ animation.pending
    /\ Set(animateCounterUpdate(St))
    /\ UNCHANGED <<phase, now>>
    /\ Other
    /\ NoShow

\* the host page calls destroy()
Destroy ==
    /\ phase = "initialized"
    /\ Set(destroy(St))
    /\ destroyed' = TRUE
    /\ destroyStreak' = IF destroyStreak < 2 THEN destroyStreak + 1 ELSE 2
    /\ UNCHANGED <<phase, reloads, countAtLoad, clicks, clicksAtLoad,
                   freshStart, now, results, external, backend>>
    /\ NoShow

\* the page is loaded again: a new document and a new widget, the same storage
Reload ==
    /\ reloads < MaxReloads
    /\ reloads' = reloads + 1
    /\ phase' = "constructed"
    /\ Set(Constructed(page, storage))
    /\ destroyed' = FALSE
    /\ destroyStreak' = 0
    /\ countAtLoad' = NaN
    /\ clicksAtLoad' = clicks
    /\ now' = 0 /\ lastShown' = NoActivity /\ stopped' = FALSE
    /\ UNCHANGED <<clicks, freshStart, results, external, backend>>

Next ==
    \/ InitWidget
    \/ Tick
    \/ WaitTimer
    \/ AutoHideTimer
    \/ ExitTimer
    \/ PopupFrame
    \/ CloseClick
    \/ CounterIntersect
    \/ AnimationFrame
    \/ Destroy
    \/ Reload

Spec == Init /\ [][Next]_vars

(***************************************************************************)
(* The timed scenario: popupDelay 5, displayDuration 4, feed [A, B], an    *)
(* empty storage and no user interaction; the clock is kept.               *)
(***************************************************************************)
ScenarioPage ==
    [BasePage EXCEPT !.config.settings.popupDelay = 5,
                     !.config.settings.displayDuration = 4]

\* the widget has been constructed, holds the feed, and nothing has
\* happened yet
BlankWidget(feed) ==
    /\ phase = "constructed"
    /\ config = NULL /\ settings = NULL /\ container = NULL
    /\ counterElement = NULL /\ counterObserver = "null"
    /\ activityQueue = feed /\ currentPopup = 0 /\ timeoutId = "null"
    /\ activityIndex = 0
    /\ elements = {} /\ timers = EmptyBag /\ frames = <<>> /\ animation = NULL
    /\ destroyed = FALSE /\ destroyStreak = 0 /\ reloads = 0
    /\ countAtLoad = NaN /\ clicks = 0 /\ clicksAtLoad = 0
    /\ freshStart = IsPlainCount(storage)
    /\ now = 0 /\ lastShown = NoActivity /\ stopped = FALSE
    /\ results = <<>> /\ external = 0

BlankWith(feed) == BlankWidget(feed) /\ Offline

Blank == BlankWith(<<>>)

InitScenario == page = ScenarioPage /\ storage = Absent /\ Blank

\* 100 ms pass on the clock
TimedTick == now < MaxClock /\ Elapse /\ now' = now + 1

NextScenario ==
    \/ InitWidget
    \/ TimedTick
    \/ WaitTimer
    \/ AutoHideTimer
    \/ ExitTimer
    \/ PopupFrame

SpecScenario == InitScenario /\ [][NextScenario]_vars

(***************************************************************************)
(* One page view in which the storage item can also be cleared from        *)
(* outside the widget (the browser's storage is shared with the page).     *)
(***************************************************************************)
InitShared ==
    /\ page = BasePage /\ storage \in {Absent, Stored(<<"2">>)} /\ Blank

\* localStorage.removeItem / clear() by the user or another script
StorageCleared ==
    /\ external < MaxExternal
    /\ storage.present
    /\ external' = external + 1
    /\ Set([St EXCEPT !.storage = Absent])
    /\ destroyStreak' = 0
    /\ UNCHANGED <<phase, destroyed, reloads, countAtLoad, clicks,
                   clicksAtLoad, freshStart, now, results, backend>>
    /\ NoShow

\* a close click, while the page view has seen fewer than MaxClicks
BoundedClick == clicks < MaxClicks /\ CloseClick

NextShared ==
    \/ InitWidget
    \/ Tick
    \/ WaitTimer
    \/ AutoHideTimer
    \/ ExitTimer
    \/ PopupFrame
    \/ BoundedClick
    \/ StorageCleared

SpecShared == InitShared /\ [][NextShared]_vars

(***************************************************************************)
(* Page loads over the configurations a theme can embed: every position    *)
(* value, a product page with the counter, and pages whose config element, *)
(* JSON, settings or container is missing.  No user interaction.           *)
(***************************************************************************)
MIDDLE == <<"M", "I", "D", "D", "L", "E">>
Positions == {BOTTOM_LEFT, BOTTOM_RIGHT, TOP_LEFT, TOP_RIGHT}

PositionPages ==
    {[BasePage EXCEPT !.config.settings.popupPosition = pos] :
        pos \in Positions \cup {<<>>, MIDDLE}}

FullPage ==
    [BasePage EXCEPT !.config.settings.counterEnabled = TRUE,
                     !.config.pageType = "product",
                     !.config.productId = TRUE,
                     !.hasAnchor = TRUE]

BrokenPages ==
    {[FullPage EXCEPT !.script = "missing"],
     [FullPage EXCEPT !.script = "invalid"],
     [FullPage EXCEPT !.config.settings = NULL],
     [FullPage EXCEPT !.hasContainer = FALSE]}

InitLoad ==
    /\ page \in PositionPages \cup {FullPage} \cup BrokenPages
    /\ storage = Absent
    /\ Blank

NextLoad ==
    \/ InitWidget
    \/ Tick
    \/ WaitTimer
    \/ AutoHideTimer
    \/ ExitTimer
    \/ PopupFrame
    \/ CounterIntersect
    \/ AnimationFrame

SpecLoad == InitLoad /\ [][NextLoad]_vars

(***************************************************************************)
(* A product page with popups and counter enabled, with and without the    *)
(* add-to-cart anchor, with close clicks and destroy().                    *)
(***************************************************************************)
NoAnchorPage == [FullPage EXCEPT !.hasAnchor = FALSE]

InitProduct ==
    /\ page \in {FullPage, NoAnchorPage}
    /\ storage = Stored(<<"2">>)
    /\ Blank

NextProduct ==
    \/ InitWidget
    \/ Tick
    \/ WaitTimer
    \/ AutoHideTimer
    \/ ExitTimer
    \/ PopupFrame
    \/ BoundedClick
    \/ CounterIntersect
    \/ AnimationFrame

SpecProduct == InitProduct /\ [][NextProduct]_vars

(***************************************************************************)
(* The manual order sync of the admin app (the Sync Orders page and the    *)
(* syncOrders intent of the settings page run the same loop): the handler  *)
(* awaits each database call, so handlers in flight interleave call by     *)
(* call.                                                                   *)
(***************************************************************************)
Widget == <<page, phase, engine, browser, history>>

\* the widget plays no part: it stays as constructed
NoWidget == page = BasePage /\ storage = Absent /\ BlankWidget(<<>>)

\* the line items of the orders the Admin API returns, in loop order; the
\* second order holds two line items of one title
ShopifyItems ==
    <<[orderId |-> 1, title |-> "X"], [orderId |-> 1, title |-> "Y"],
      [orderId |-> 2, title |-> "X"], [orderId |-> 2, title |-> "X"]>>

InitSync ==
    /\ NoWidget
    /\ db = EmptyDb
    /\ metafield = NULL
    /\ billing = FALSE
    /\ requests = [p \in Procs |-> Idle]

\* the loop moves to the next line item, or ends
NextItem(r) ==
    IF r.i = Len(ShopifyItems)
    THEN [r EXCEPT !.pc = "done"]
    ELSE [r EXCEPT !.i = @ + 1, !.pc = "find"]

\* a sync request arrives; the orders are fetched
SyncStart(p) ==
    /\ requests[p] = Idle
    /\ requests' = [requests EXCEPT
                       ![p] = [kind |-> "sync", pc |-> "find", i |-> 1,
                               syncedCount |-> 0]]
    /\ UNCHANGED <<db, metafield, billing, Widget>>

\* await db.recentOrder.findFirst(...) for the current line item
SyncFind(p) ==
    /\ requests[p].kind = "sync" /\ requests[p].pc = "find"
    /\ LET item == ShopifyItems[requests[p].i]
       IN requests' = [requests EXCEPT ![p] =
              IF recentOrderExists(db, item.orderId, item.title)
              THEN NextItem(@)
              ELSE [@ EXCEPT !.pc = "create"]]
    /\ UNCHANGED <<db, metafield, billing, Widget>>

\* await db.recentOrder.create(...) for the current line item
SyncCreate(p) ==
    /\ requests[p].kind = "sync" /\ requests[p].pc = "create"
    /\ LET item == ShopifyItems[requests[p].i]
       IN db' = recentOrderCreate(db, item.orderId, item.title)
    /\ requests' = [requests EXCEPT
                       ![p] = NextItem([@ EXCEPT !.syncedCount = @ + 1])]
    /\ UNCHANGED <<metafield, billing, Widget>>

NextSync ==
    \/ \E p \in Procs : SyncStart(p)
    \/ \E p \in Procs : SyncFind(p)
    \/ \E p \in Procs : SyncCreate(p)

SpecSync == InitSync /\ [][NextSync]_vars

(***************************************************************************)
(* The stored configuration: the settings save of the admin app, its       *)
(* activities merge and the app_subscriptions/update webhook all write the *)
(* metafield through setConfig(), which reads the current value and writes *)
(* the merged one in two awaited calls.  Only the fields the handlers      *)
(* decide on are kept: position, timing, activities, isPro.                *)
(***************************************************************************)
DEFAULT_CONFIG ==
    [popupPosition |-> BOTTOM_LEFT, popupDelay |-> Num(5),
     displayDuration |-> Num(4), activities |-> <<>>, isPro |-> FALSE]

\* {...currentConfig, ...config}
MergeConfig(currentConfig, patch) ==
    [f \in DOMAIN currentConfig \cup DOMAIN patch |->
        IF f \in DOMAIN patch THEN patch[f] ELSE currentConfig[f]]

\* getConfig(admin): the stored value over the defaults, or the defaults
getConfig(mf) ==
    IF mf = NULL THEN DEFAULT_CONFIG ELSE MergeConfig(DEFAULT_CONFIG, mf)

\* the form a settings page submits: a position, a delay below the
\* slider's range and a duration inside it
Forms ==
    {[popupPosition |-> TOP_RIGHT, popupDelay |-> <<"0">>,
      displayDuration |-> <<"6">>]}

\* the settings the save action takes from the form: position and timing
\* are the form's for a subscriber and fixed otherwise
SettingsPatch(form, isPro) ==
    [popupPosition |-> IF isPro THEN form.popupPosition ELSE BOTTOM_LEFT,
     popupDelay |-> IF isPro THEN parseInt(form.popupDelay) ELSE Num(5),
     displayDuration |->
        IF isPro THEN parseInt(form.displayDuration) ELSE Num(4)]

\* formatOrdersAsActivities(recentOrders) for the shop's recent orders
NewActivities == <<"X">>
\* .slice(0, 50)
ACTIVITY_LIMIT == 50
Take(seq, n) == IF Len(seq) <= n THEN seq ELSE SubSeq(seq, 1, n)

InitConfig ==
    /\ NoWidget
    /\ db = EmptyDb
    /\ metafield = NULL
    /\ billing \in BOOLEAN
    /\ requests = [p \in Procs |-> Idle]

\* a settings form is submitted: billing is checked and the form parsed
SaveStart(p) ==
    /\ requests[p] = Idle
    /\ \E form \in Forms, hasOrders \in BOOLEAN :
          /\ hasOrders => Len(getConfig(metafield).activities) < MaxActivities
          /\ requests' = [requests EXCEPT ![p] =
                 [kind |-> "save", pc |-> "read",
                  patch |-> SettingsPatch(form, billing),
                  current |-> NULL, hasOrders |-> hasOrders]]
    /\ UNCHANGED <<db, metafield, billing, Widget>>

\* setConfig(): const currentConfig = await getConfig(admin)
ConfigRead(p) ==
    /\ requests[p].pc = "read"
    /\ requests' = [requests EXCEPT
                       ![p] = [@ EXCEPT !.current = getConfig(metafield),
                                        !.pc = "write"]]
    /\ UNCHANGED <<db, metafield, billing, Widget>>

\* setConfig(): the merged config is written; a settings save with recent
\* orders goes on to merge activities, every other handler returns
ConfigWrite(p) ==
    /\ requests[p].pc = "write"
    /\ metafield' = MergeConfig(requests[p].current, requests[p].patch)
    /\ requests' = [requests EXCEPT ![p] =
           IF /\ @.kind = "save" /\ @.hasOrders
              /\ "activities" \notin DOMAIN @.patch
           THEN [@ EXCEPT !.pc = "merge"]
           ELSE Idle]
    /\ UNCHANGED <<db, billing, Widget>>

\* the save action reads the config and prepends the new activities; the
\* merged list is then written with setConfig({activities: merged})
ActivitiesMerge(p) ==
    /\ requests[p].pc = "merge"
    /\ LET currentConfig == getConfig(metafield)
           merged == Take(NewActivities \o currentConfig.activities,
                          ACTIVITY_LIMIT)
       IN requests' = [requests EXCEPT ![p] =
              [@ EXCEPT !.patch = [activities |-> merged],
                        !.current = NULL, !.pc = "read"]]
    /\ UNCHANGED <<db, metafield, billing, Widget>>

\* the subscription becomes active or is cancelled and the
\* app_subscriptions/update webhook arrives with the status
SubscriptionUpdate(p) ==
    /\ requests[p] = Idle
    /\ \E status \in {"ACTIVE", "CANCELLED"} :
          /\ billing # (status = "ACTIVE")
          /\ billing' = (status = "ACTIVE")
          /\ requests' = [requests EXCEPT ![p] =
                 [kind |-> "subscription", pc |-> "read",
                  patch |-> [isPro |-> status = "ACTIVE"],
                  current |-> NULL, hasOrders |-> FALSE]]
    /\ UNCHANGED <<db, metafield, Widget>>

NextConfig ==
    \/ \E p \in Procs : SaveStart(p)
    \/ \E p \in Procs : ConfigRead(p)
    \/ \E p \in Procs : ConfigWrite(p)
    \/ \E p \in Procs : ActivitiesMerge(p)
    \/ \E p \in Procs : SubscriptionUpdate(p)

SpecConfig == InitConfig /\ [][NextConfig]_vars

(***************************************************************************)
(* The orders/create webhook: one RecentOrder row per line item, then the  *)
(* cleanup that keeps the 100 most recent rows of the shop. The handler    *)
(* awaits each database call, so webhooks in flight interleave call by     *)
(* call. The shop has one record and the rows are the rows of that shop;   *)
(* the image fetch and the ProductStats upsert around each create do not   *)
(* touch the rows. The clock moves on between two creates, so createdAt    *)
(* orders the rows.                                                        *)
(***************************************************************************)
\* db.recentOrder.findMany({where: {shopId}, orderBy: {createdAt: "desc"},
\* skip: 100, select: {id: true}})
oldRecords(d) ==
    {r.id : r \in {x \in d.rows :
        Cardinality({y \in d.rows : y.createdAt > x.createdAt})
            >= KEEP_LIMIT}}

\* the shop has one row less than the cleanup keeps
SeededDb ==
    [rows |-> {[id |-> i, orderId |-> 0, productTitle |-> "X",
                createdAt |-> i] : i \in 1..(KEEP_LIMIT - 1)},
     nextId |-> KEEP_LIMIT, time |-> KEEP_LIMIT]

InitOrders ==
    /\ NoWidget
    /\ db = SeededDb
    /\ metafield = NULL
    /\ billing = FALSE
    /\ requests = [p \in Procs |-> Idle]

\* a webhook arrives for an order of 1..MaxItems line items and the shop
\* record is found; a handler that has returned takes the next webhook,
\* which may be a second delivery of the same order
OrderStart(p) ==
    /\ requests[p].pc \in {"idle", "done"}
    /\ db.nextId < KEEP_LIMIT + MaxNewRows
    /\ \E n \in 1..MaxItems :
          requests' = [requests EXCEPT
              ![p] = [kind |-> "order", pc |-> "create", orderId |-> p,
                      items |-> n, i |-> 1, oldRecords |-> {}]]
    /\ UNCHANGED <<db, metafield, billing, Widget>>

\* await db.recentOrder.create(...) for the current line item
OrderCreate(p) ==
    /\ requests[p].kind = "order" /\ requests[p].pc = "create"
    /\ db' = [recentOrderCreate(db, requests[p].orderId, "X")
                EXCEPT !.time = @ + 1]
    /\ requests' = [requests EXCEPT ![p] =
           IF @.i = @.items
           THEN [@ EXCEPT !.pc = "cleanup"]
           ELSE [@ EXCEPT !.i = @ + 1]]
    /\ UNCHANGED <<metafield, billing, Widget>>

\* await db.recentOrder.findMany(...) of the cleanup
OrderFindOld(p) ==
    /\ requests[p].kind = "order" /\ requests[p].pc = "cleanup"
    /\ requests' = [requests EXCEPT ![p] =
           IF oldRecords(db) = {}
           THEN [@ EXCEPT !.pc = "done"]
           ELSE [@ EXCEPT !.pc = "delete", !.oldRecords = oldRecords(db)]]
    /\ UNCHANGED <<db, metafield, billing, Widget>>

\* await db.recentOrder.deleteMany({where: {id: {in: ...}}})
OrderDelete(p) ==
    /\ requests[p].kind = "order" /\ requests[p].pc = "delete"
    /\ db' = [db EXCEPT
                !.rows = {r \in @ : r.id \notin requests[p].oldRecords}]
    /\ requests' = [requests EXCEPT ![p] = [@ EXCEPT !.pc = "done"]]
    /\ UNCHANGED <<metafield, billing, Widget>>

NextOrders ==
    \/ \E p \in Procs : OrderStart(p)
    \/ \E p \in Procs : OrderCreate(p)
    \/ \E p \in Procs : OrderFindOld(p)
    \/ \E p \in Procs : OrderDelete(p)

SpecOrders == InitOrders /\ [][NextOrders]_vars

(***************************************************************************)
(* The popup loop left to itself: no close click, no destroy(), no reload. *)
(* The page script runs initWidget() once the document is ready, time      *)
(* passes, the browser runs a timer callback that is due and a paint-frame *)
(* callback that is pending: each of these steps happens if it stays       *)
(* possible.                                                               *)
(***************************************************************************)
InitLive ==
    /\ page \in {BasePage, ScenarioPage}
    /\ storage \in {Absent, Stored(<<"0">>), Stored(<<"2">>)}
    /\ Blank

NextLive ==
    \/ InitWidget
    \/ Tick
    \/ WaitTimer
    \/ AutoHideTimer
    \/ ExitTimer
    \/ PopupFrame

\* weak fairness of InitWidget and of WaitTimer is written out, with the
\* condition under which the step is possible in place of ENABLED
SpecLive ==
    /\ InitLive
    /\ [][NextLive]_vars
    /\ ([]<>(phase # "constructed") \/ []<><<InitWidget>>_vars)
    /\ WF_vars(Tick)
    /\ ([]<>(~\E t \in BagToSet(timers) : Due(t, "wait"))
           \/ []<><<WaitTimer>>_vars)
    /\ WF_vars(AutoHideTimer)
    /\ WF_vars(ExitTimer)
    /\ WF_vars(PopupFrame)

(***************************************************************************)
(* The activity cycler on its own: getNextActivity() called repeatedly on  *)
(* a feed.                                                                 *)
(***************************************************************************)
Activities == {"A", "B", "C"}
Feeds == UNION {[1..n -> Activities] : n \in 0..MaxFeed}

InitCycler ==
    /\ page = BasePage /\ storage = Absent
    /\ \E feed \in Feeds : BlankWith(feed)

\* quantities no call changes
CallFrame ==
    UNCHANGED <<phase, destroyed, destroyStreak, reloads, countAtLoad, clicks,
                clicksAtLoad, freshStart, now, lastShown, stopped, external, backend>>

CallNext ==
    /\ Len(results) < Len(activityQueue) + MaxExtraCalls
    /\ results' = Append(results, NextActivity(St))
    /\ Set(getNextActivity(St))
    /\ CallFrame

NextCycler == CallNext

SpecCycler == InitCycler /\ [][NextCycler]_vars

(***************************************************************************)
(* The dismissal tracker on its own: reads and increments of the stored    *)
(* count from a fresh storage.                                             *)
(***************************************************************************)
InitCounter == page = BasePage /\ storage \in {Absent, Stored(<<"0">>)} /\ Blank

\* getDismissCount() is called
CallGet ==
    /\ Len(results) < MaxCalls
    /\ results' = Append(results, [op |-> "get", value |-> getDismissCount(St)])
    /\ Set(St)
    /\ CallFrame

\* incrementDismissCount() is called; it returns the count it stored
CallIncrement ==
    /\ Len(results) < MaxCalls
    /\ results' = Append(results,
                     [op |-> "inc", value |-> PlusOne(getDismissCount(St))])
    /\ Set(incrementDismissCount(St))
    /\ CallFrame

NextCounter == CallGet \/ CallIncrement

SpecCounter == InitCounter /\ [][NextCounter]_vars

(***************************************************************************)
(* Properties                                                              *)
(***************************************************************************)
WaitCount == CountOf(St, "wait")
ExitCount == CountOf(St, "exit")
Count == getDismissCount(St)
DisplayTicks == settings.displayDuration * TicksPerSecond

\* C1: the popup container never holds more than one popup element, whatever
\* the order of wait timers, auto-hide timers, exit timers, close clicks,
\* destroy() calls and reloads.
C1_AtMostOnePopup == Cardinality(Mounted(St)) <= 1

\* C1 witness: showPopup() ran while a popup was mounted; the popup it
\* replaced is detached (its frame callback is still pending) and exactly
\* one popup is on the page.
C1_Witness_Replaced ==
    /\ Cardinality(Mounted(St)) = 1
    /\ \E e \in elements : ~e.mounted /\ e.id # currentPopup
    /\ ~destroyed

\* C2: a display cycle has one hide completion and sets at most one wait
\* timer: never two exit timers pending, never two wait timers pending.
C2_SingleHidePerCycle == ExitCount <= 1 /\ WaitCount <= 1

\* C3: once destroy() has been called in a page view no timer is pending,
\* no popup is mounted and no wait timer is pending.
C3_DestroyStopsEverything ==
    destroyed => timers = EmptyBag /\ Mounted(St) = {}

\* C4: the close handler increments the dismiss counter at most once for a
\* popup, and not at all for a popup whose hide was begun by the auto-hide
\* timer.
C4_OneDismissalPerCycle ==
    \A e \in elements :
        /\ e.clicks <= 1
        /\ e.hideBy = "auto" => e.clicks = 0

\* C5: shouldShowPopups() is true exactly when the stored count is below 3,
\* and in a page view whose stored count has reached 3 no step sets a wait
\* timer or mounts a popup.
C5_ThresholdStops ==
    [][/\ shouldShowPopups(St) <=> (~Count.nan /\ Count.v < 3)
       /\ (~Count.nan /\ Count.v >= 3 /\ reloads' = reloads)
            => /\ WaitCount' <= WaitCount
               /\ Mounted(St)' \subseteq Mounted(St)]_vars

\* C5 witness: the third dismissal was recorded in this page view, the
\* dismissed popup has been removed and nothing is pending.
C5_Witness_Stopped ==
    /\ phase = "initialized" /\ ~destroyed
    /\ ~countAtLoad.nan /\ countAtLoad.v < 3
    /\ ~Count.nan /\ Count.v = 3
    /\ elements = {} /\ currentPopup = 0 /\ timers = EmptyBag

\* a string of decimal digits
IsDigitString(str) == str # <<>> /\ \A i \in DOMAIN str : IsDigit(str[i])

\* C6: a stored value that is present but is not a non-negative integer
\* reads as count 0, and popups are allowed.
C6_CorruptReadsAsZero ==
    (storage.present /\ ~IsDigitString(storage.value))
        => Count = Num(0) /\ shouldShowPopups(St)

\* C7: a page load that starts with a stored count of 3 or more never has a
\* wait timer or a popup element; after three close clicks recorded from a
\* fresh storage, no later page load has one either.
C7_BlockedPageLoad ==
    /\ (phase = "initialized" /\ ~countAtLoad.nan /\ countAtLoad.v >= 3)
          => WaitCount = 0 /\ elements = {} /\ currentPopup = 0
    /\ (freshStart /\ clicksAtLoad >= 3)
          => WaitCount = 0 /\ elements = {} /\ currentPopup = 0

\* C7 witness: three close clicks were recorded from an empty storage
\* before this page load, and this page load has run init().
C7_Witness_LaterLoad ==
    /\ reloads >= 1 /\ phase = "initialized"
    /\ freshStart /\ clicksAtLoad = 3
    /\ countAtLoad = Num(3)
    /\ page = BasePage

\* C8: a popup the user has not closed begins to hide exactly
\* displayDuration seconds after it was mounted.
C8_FullDisplayDuration ==
    \A e \in elements :
        (e.hideBy = "auto" /\ e.clicks = 0) => e.hideAge = DisplayTicks

\* C9: no wait timer is pending while a popup is mounted.
C9_NoWaitWhileMounted == Mounted(St) # {} => WaitCount = 0

\* C10: after one or two successive destroy() calls no timer is pending and
\* the observer is not observing; the second call changes nothing.
C10_DestroyTwice ==
    [][/\ destroyStreak' >= 1
            => timers' = EmptyBag /\ counterObserver' # "observing"
       /\ (destroyStreak = 1 /\ destroyStreak' = 2)
            => UNCHANGED <<engine, browser>>]_vars

\* C11: the storage item changes only in a close click, which raises the
\* count by exactly 1; init(), the wait, auto-hide and exit timers,
\* destroy() and a reload leave it as it is.
C11_OnlyClickWrites ==
    [][storage' # storage
          => /\ clicks' = clicks + 1
             /\ ~Count.nan /\ Count' = Num(Count.v + 1)]_vars

\* C11 witness: close clicks have been recorded from an empty storage, the
\* timers of several cycles have run and destroy() was called; the count is
\* the number of clicks.
C11_Witness_ClicksCounted ==
    /\ storage.present /\ clicks = 2 /\ Count = Num(2)
    /\ freshStart /\ destroyed /\ lastShown = "B"

\* exactly one popup is mounted and it shows the activity
Showing(a) ==
    /\ Cardinality(Mounted(St)) = 1
    /\ \E e \in elements : e.mounted /\ e.activity = a
HideBegun == \E e \in elements : e.mounted /\ "exiting" \in e.classes

\* C12 as claimed: in the timed scenario nothing is mounted before 5 s, the
\* popup for A is mounted from 5 s and begins to hide at 9 s, and the popup
\* for B is mounted from 14 s.
C12_ScenarioAsClaimed ==
    /\ now < 50 => Mounted(St) = {}
    /\ (50 < now /\ now < 90) => Showing("A") /\ ~HideBegun
    /\ (90 < now /\ now < 93) => Showing("A") /\ HideBegun
    /\ (140 < now /\ now < 180) => Showing("B")

\* C12 amended: as above, but the popup for A is removed at 9.3 s, nothing
\* is mounted until 14.3 s, and the popup for B is mounted from 14.3 s.
C12_ScenarioWithExitDelay ==
    /\ now < 50 => Mounted(St) = {}
    /\ (50 < now /\ now < 90) => Showing("A") /\ ~HideBegun
    /\ (90 < now /\ now < 93) => Showing("A") /\ HideBegun
    /\ (93 < now /\ now < 143) => Mounted(St) = {}
    /\ (143 < now /\ now < 183) => Showing("B") /\ ~HideBegun

\* C12 witness: the clock is past 14.3 s and the popup for B is mounted.
C12_Witness_SecondPopup == now > 143 /\ Showing("B") /\ lastShown = "B"

\* C13: on a feed of N >= 1 activities the k-th call of getNextActivity()
\* returns feed[(k - 1) mod N], so N calls return the feed in order and call
\* N + 1 returns feed[0]; on an empty feed every call returns null and the
\* cursor stays 0.
C13_RoundRobin ==
    LET N == Len(activityQueue)
    IN /\ \A k \in DOMAIN results :
            results[k] = IF N = 0 THEN NoActivity
                         ELSE activityQueue[((k - 1) % N) + 1]
       /\ N = 0 => activityIndex = 0
       /\ N > 0 => activityIndex = Len(results) % N

\* C13 witness: a feed of three different activities was cycled once and the
\* fourth call returned the first activity again.
C13_Witness_Wrapped ==
    /\ activityQueue = <<"A", "B", "C">>
    /\ results = <<"A", "B", "C", "A">>

HideCount == CountOf(St, "hide")

\* C16: once a shouldShowPopups() check of showPopup() or of the exit
\* callback has returned false, or the cycler has returned null, no step of
\* the page view sets a timer or creates a popup, whatever is written to the
\* storage item afterwards.
C16_StoppedIsTerminal ==
    [][(stopped /\ phase' = phase)
          => /\ WaitCount' <= WaitCount
             /\ HideCount' <= HideCount
             /\ ExitCount' <= ExitCount
             /\ \A e \in elements' : e.id \in ElementIds(St)]_vars

\* the class names of the four enumerated positions
PositionClasses ==
    {<<"b", "o", "t", "t", "o", "m", "-", "l", "e", "f", "t">>,
     <<"b", "o", "t", "t", "o", "m", "-", "r", "i", "g", "h", "t">>,
     <<"t", "o", "p", "-", "l", "e", "f", "t">>,
     <<"t", "o", "p", "-", "r", "i", "g", "h", "t">>}

\* C17: the class of the container and the position class of every popup
\* are those of one of the four enumerated positions, whatever
\* popupPosition the settings hold.
C17_PositionNormalized ==
    /\ (container # NULL /\ phase = "initialized")
          => container.className \in PositionClasses
    /\ \A e \in elements : e.position \in PositionClasses

\* C18: on a page with an empty activity feed no wait timer is ever pending
\* and no popup element exists.
C18_EmptyFeedNotStarted ==
    (page.config.demoActivities = <<>>)
       => /\ WaitCount = 0
          /\ elements = {}

\* the page lacks the config element, valid JSON, the settings or the
\* container
Broken(pg) ==
    \/ pg.script # "ok"
    \/ pg.config.settings = NULL
    \/ ~pg.hasContainer

\* C19: on a page whose config element, JSON, settings or container is
\* missing, init() leaves the engine not started: no timer, no paint
\* callback, no popup, no counter badge, no observer, no count-up, and the
\* container is not shown.
C19_BrokenPageNotStarted ==
    Broken(page)
       => /\ timers = EmptyBag /\ frames = <<>>
          /\ elements = {}
          /\ counterElement = NULL /\ counterObserver = "null"
          /\ animation = NULL
          /\ container = NULL \/ container.display # "block"
          /\ activityQueue = <<>>

\* C19 witness: init() has run on a page that has its config and settings
\* but no container.
C19_Witness_NoContainer ==
    /\ phase = "initialized"
    /\ ~page.hasContainer
    /\ config # NULL /\ settings # NULL /\ settings.counterEnabled
    /\ container = NULL

\* the count-up has run to its end
AnimationDone == animation # NULL /\ ~animation.pending

\* C20: the count-up is started at most once per page view and only with
\* the observer disconnected; once it has completed it stays completed and
\* the badge shows the target, which is not 0.
C20_AnimatesOnce ==
    [][/\ animation' # NULL
          => animation'.runs = 1 /\ counterObserver' = "disconnected"
       /\ (AnimationDone /\ phase' = phase)
          => /\ AnimationDone'
             /\ counterElement'.text = counterElement'.target
             /\ counterElement'.text # 0]_vars

\* C20 witness: the badge was seen, the count-up ran to its end and the
\* badge shows 50.
C20_Witness_Completed ==
    /\ AnimationDone /\ animation.runs = 1
    /\ counterElement # NULL /\ counterElement.visible
    /\ counterElement.text = 50 /\ counterElement.target = 50
    /\ counterObserver = "disconnected"

\* the activity that follows a in the feed (the first one after none); the
\* activities of a feed are told apart by their value
FeedSuccessor(a) ==
    IF a = NoActivity
    THEN activityQueue[1]
    ELSE LET k == CHOOSE i \in DOMAIN activityQueue : activityQueue[i] = a
         IN activityQueue[(k % Len(activityQueue)) + 1]

\* C14: within a page view every popup that is mounted shows the activity
\* that follows the one mounted before it in the feed (the first activity
\* at the start), whatever timers and close clicks ran in between, and the
\* cursor moves only in a step that mounts a popup.
C14_FeedOrder ==
    [][LET created == {e \in elements' : e.id \notin ElementIds(St)}
       IN /\ \A e \in created :
               e.mounted /\ e.activity = FeedSuccessor(lastShown)
          /\ (activityIndex' # activityIndex /\ phase' = phase)
                => created # {}]_vars

\* C14 witness: in one page view a popup was closed by a click and the popup
\* now mounted shows the first activity again, after the feed wrapped.
C14_Witness_SecondRound ==
    /\ reloads = 0 /\ clicks = 1 /\ lastShown = "A" /\ activityIndex = 1
    /\ \E e \in elements :
          /\ e.id = currentPopup /\ e.mounted
          /\ e.activity = "A" /\ e.clicks = 0

\* increments among the first k calls
Increments(k) == Cardinality({i \in 1..k : results[i].op = "inc"})

\* C15: from an absent or 0 stored value, every read returns the number of
\* incrementDismissCount() calls made before it, every increment returns the
\* new count, and no read returns less than an earlier one.
C15_CountsCalls ==
    /\ \A k \in DOMAIN results : results[k].value = Num(Increments(k))
    /\ Count = Num(Increments(Len(results)))
    /\ \A i, j \in DOMAIN results :
          (i < j /\ results[i].op = "get" /\ results[j].op = "get")
             => results[i].value.v <= results[j].value.v

\* C15 witness: ten increments, then a read that returns 10.
C15_Witness_TenIncrements ==
    /\ Len(results) = 11
    /\ Increments(10) = 10
    /\ results[11] = [op |-> "get", value |-> Num(10)]
    /\ storage = Stored(<<"1", "0">>)

\* C21: once destroy() has been called, the observer is not observing, the
\* counter badge is not on the page, and no frame callback of the count-up is
\* pending (so the count-up neither starts nor goes on).
C21_DestroyStopsBadge ==
    destroyed
       => /\ counterObserver # "observing"
          /\ counterElement # NULL => ~counterElement.mounted
          /\ animation # NULL => ~animation.pending

\* the state the widget is in when findAddToCartButton() finds nothing:
\* everything but the badge, its observer and its count-up
NoAnchor(s) ==
    [s EXCEPT !.page = [@ EXCEPT !.hasAnchor = FALSE],
              !.counterElement = NULL,
              !.counterObserver = "null",
              !.animation = NULL]

\* the states one handler of the popup engine leads to from s: init(), the
\* three timer callbacks, the paint-frame callback, a close click, destroy()
PopupSteps(s) ==
    (IF phase = "constructed"
     THEN {init(s, d) : d \in DemoCounts}
     ELSE {destroy(s)})
    \cup {showPopup(removeTimer(s, t)) :
             t \in {x \in BagToSet(timers) : Due(x, "wait")}}
    \cup {hidePopup(removeTimer(s, t)) :
             t \in {x \in BagToSet(timers) : Due(x, "hide")}}
    \cup {hidePopupDone(removeTimer(s, t)) :
             t \in {x \in BagToSet(timers) : Due(x, "exit")}}
    \cup (IF s.frames # <<>>
          THEN {popupFrame([s EXCEPT !.frames = Tail(@)], Head(s.frames))}
          ELSE {})
    \cup (IF Mounted(s) # {} THEN {closeClick(s)} ELSE {})

\* C22: on a page without the add-to-cart anchor there is never a badge, an
\* observer or a count-up; and in every state each handler of the popup
\* engine leaves the timers, popups, cursor and stored count exactly as it
\* leaves them from the same state without anchor and badge.
C22_AnchorOnlyAffectsBadge ==
    /\ ~page.hasAnchor
          => /\ counterElement = NULL
             /\ counterObserver = "null"
             /\ animation = NULL
    /\ {NoAnchor(x) : x \in PopupSteps(St)} = PopupSteps(NoAnchor(St))

\* C22 witness: on the product page without anchor, with the counter
\* enabled, the second popup of the feed is mounted and was closed by a
\* click that was counted; no badge exists.
C22_Witness_PopupsWithoutAnchor ==
    /\ ~page.hasAnchor /\ page.config.pageType = "product"
    /\ settings # NULL /\ settings.counterEnabled
    /\ clicks = 1 /\ storage = Stored(<<"3">>)
    /\ lastShown = "B"
    /\ \E e \in elements : e.mounted /\ e.activity = "B" /\ e.clicks = 1
    /\ counterElement = NULL

\* C23: however many syncs have run over the same orders, the RecentOrder
\* table holds at most one row per order id and product title.
C23_OneRowPerLineItem ==
    \A r1, r2 \in db.rows :
        (r1.orderId = r2.orderId /\ r1.productTitle = r2.productTitle)
           => r1 = r2

\* the number is an integer between lo and hi
InRange(n, lo, hi) == ~n.nan /\ lo <= n.v /\ n.v <= hi

\* C24: the stored popupDelay is between 1 and 30 and the stored
\* displayDuration between 1 and 15, whatever forms were submitted.
C24_TimingInRange ==
    metafield # NULL
       => /\ InRange(metafield.popupDelay, 1, 30)
          /\ InRange(metafield.displayDuration, 1, 15)

\* C25: the write of a setConfig() call that was given no activities leaves
\* the stored activities as they are, whatever other handler read or wrote
\* in between.
C25_SettingsKeepActivities ==
    [][\A p \in Procs :
          (/\ requests[p].pc = "write"
           /\ requests'[p] # requests[p]
           /\ "activities" \notin DOMAIN requests[p].patch)
             => metafield'.activities = getConfig(metafield).activities]_vars

\* C26: when the shop has no active subscription and no handler is in
\* flight, the stored config has position BOTTOM_LEFT, delay 5 and
\* duration 4.
C26_FreeShopLocked ==
    (/\ ~billing
     /\ metafield # NULL
     /\ \A p \in Procs : requests[p] = Idle)
       => /\ metafield.popupPosition = BOTTOM_LEFT
          /\ metafield.popupDelay = Num(5)
          /\ metafield.displayDuration = Num(4)


\* C27: the visual state of a popup only moves forward: no popup carries
\* the visible and the exiting marker together, and a popup whose hide has
\* begun does not carry the visible marker afterwards, in whatever order
\* the paint-frame callbacks, the auto-hide timer and a close click run
C27_VisualStateForward ==
    [][\A f \in elements' :
          /\ ~({"visible", "exiting"} \subseteq f.classes)
          /\ \A e \in elements :
                e.id = f.id /\ e.mounted /\ "exiting" \in e.classes
                    => "visible" \notin f.classes]_vars

\* C28: during the count-up the number on the badge starts at 0, never
\* decreases and stays within 0..target; it is written only by a frame
\* whose floored eased value differs from the last value written, and then
\* it is that value; the frames stop at the first frame that runs with
\* progress 1, and not before, and that frame leaves the target on the badge
C28_CountUpMonotone ==
    [][/\ (animation = NULL /\ animation' # NULL) => counterElement'.text = 0
       /\ counterElement' # NULL
          => counterElement'.text \in 0..counterElement'.target
       /\ (counterElement # NULL /\ counterElement' # NULL /\ phase' = phase)
          => /\ counterElement'.text >= counterElement.text
             /\ counterElement'.text # counterElement.text
                => /\ animation # NULL /\ animation.pending
                   /\ EasedValue(animation.elapsed, animation.target)
                         # animation.lastValue
                   /\ counterElement'.text
                         = EasedValue(animation.elapsed, animation.target)
                   /\ animation'.lastValue = counterElement'.text
       /\ (animation # NULL /\ animation' # NULL /\ animation.pending)
          => /\ ~animation'.pending
                => /\ animation.elapsed >= AnimationTicks
                   /\ counterElement'.text = animation.target
             /\ (animation.elapsed >= AnimationTicks /\ animation' # animation)
                => ~animation'.pending]_vars

\* C28 witness: the count-up to 50 is under way: a frame has written 48 and
\* the next frame is pending before the 1.5 s are over.
C28_Witness_MidCountUp ==
    /\ animation # NULL /\ animation.pending
    /\ animation.target = 50 /\ animation.lastValue = 48
    /\ animation.elapsed < AnimationTicks
    /\ counterElement # NULL /\ counterElement.text = 48

\* C29: when the handler of an orders/create webhook has finished, the shop
\* has at most 100 RecentOrder rows, and every row created after a row
\* that is kept is kept too, also with other webhooks of the shop in flight
C29_CleanupKeepsLatest ==
    [][\A p \in Procs :
          (requests[p].kind = "order" /\ requests[p].pc # "done"
             /\ requests'[p].pc = "done")
          => /\ Cardinality(db'.rows) <= KEEP_LIMIT
             /\ \A r \in db'.rows : \A k \in r.id..(db'.nextId - 1) :
                   \E x \in db'.rows : x.id = k]_vars

\* C30: with popups enabled, a feed that is not empty, a stored count below
\* 3, no close click and no destroy(), the loop does not stall: a mounted
\* popup is eventually removed, a popup is eventually mounted again once
\* none is mounted, and every activity of the feed is shown again and again
C30_LoopNeverStalls ==
    /\ (Mounted(St) # {}) ~> (Mounted(St) = {})
    /\ (Mounted(St) = {}) ~> (Mounted(St) # {})
    /\ \A a \in Activities :
          [](a \in {activityQueue[i] : i \in DOMAIN activityQueue}
                => <>Showing(a))

\* C30 witness: the loop has gone through the feed and started over: the
\* last activity of the feed is on the page, the cursor is back at the
\* start, and the stored count is still 2.
C30_Witness_FeedWrapped ==
    /\ Showing("B") /\ lastShown = "B"
    /\ activityQueue = <<"A", "B">> /\ activityIndex = 0
    /\ storage = Stored(<<"2">>) /\ clicks = 0 /\ ~destroyed

====
